---- MODULE Spec2Model ----
(***************************************************************************)
(* GitSmart: the interactive session of GitSmart/main.py (main, loop), its *)
(* background auto-refresh worker, the SIGUSR1 handler that aborts the     *)
(* menu prompt, the AutoRefreshSuspender guard and stop_auto_refresh.      *)
(*                                                                         *)
(* Two threads share the closure variables of main(): the main thread      *)
(* (loop) and the daemon thread (auto_refresh_worker).  Every read or      *)
(* write of a shared variable is one step, so that the check-then-act      *)
(* sequences of the source are interleaved as the interpreter allows.      *)
(* Signal handlers run in the main thread between two of its steps.        *)
(***************************************************************************)
EXTENDS Integers, FiniteSets, Sequences, TLC

(***************************************************************************)
(* Bounds of the environment.                                              *)
(***************************************************************************)
MaxLines == 1

\* The calls of start and of stop that the caller of SpecCalls may make.
MaxCalls == 2

\* The remote requests the companion server handles, each in its own thread.
MaxRequests == 3

Requests == 1..MaxRequests

\* The files the environment edits.
Files == {"a.py"}

(***************************************************************************)
(* The working tree as git reports it: every file is clean, or has         *)
(* unstaged changes, or has staged changes, with its line statistics.      *)
(***************************************************************************)
CleanFile == [st |-> "clean", additions |-> 0, deletions |-> 0]

FileStates ==
    {CleanFile} \cup
    [st : {"unstaged", "staged"}, additions : 1..MaxLines, deletions : {0}]

RepoStates == [Files -> FileStates]

(***************************************************************************)
(* parse_diff followed by the dict comprehension of check_for_changes and  *)
(* loop: file path -> (additions, deletions) of the files of one diff.     *)
(***************************************************************************)
ParsedFiles(r, kind) ==
    [f \in {g \in Files : r[g].st = kind} |-> <<r[f].additions, r[f].deletions>>]

EmptyFiles == [f \in {} |-> <<0, 0>>]

(***************************************************************************)
(* get_git_diff: the diff of the working tree, or "" (which parses to no   *)
(* file at all) when the git subprocess exits with an error.               *)
(***************************************************************************)
get_git_diff(r, kind, outcome) ==
    IF outcome = "ok" THEN ParsedFiles(r, kind) ELSE EmptyFiles

DiffOutcomes == {"ok", "CalledProcessError", "raised"}

(***************************************************************************)
(* cli_flow.get_status: the parsed staged and unstaged diffs.  The two git *)
(* invocations are taken as one reading of the working tree.               *)
(***************************************************************************)
get_status(r, os, ou) ==
    <<get_git_diff(r, "staged", os), get_git_diff(r, "unstaged", ou)>>

(***************************************************************************)
(* Optional values: None is the empty set, a value v is {v}.               *)
(***************************************************************************)
None == {}
Some(v) == {v}

(***************************************************************************)
(* git add / git reset / git commit on the working tree.                   *)
(***************************************************************************)
stage_files(r, fs) ==
    [f \in Files |-> IF f \in fs /\ r[f].st = "unstaged"
                     THEN [r[f] EXCEPT !.st = "staged"] ELSE r[f]]

unstage_files(r, fs) ==
    [f \in Files |-> IF f \in fs /\ r[f].st = "staged"
                     THEN [r[f] EXCEPT !.st = "unstaged"] ELSE r[f]]

git_commit(r) ==
    [f \in Files |-> IF r[f].st = "staged" THEN CleanFile ELSE r[f]]

VARIABLES
    AUTO_REFRESH,            \* config: the watcher is enabled
    repo,                    \* the working tree
    auto_refresh_active,
    shutdown_requested,      \* threading.Event
    menu_needs_refresh,      \* threading.Event (PendingRefresh)
    last_staged_state,       \* None or Some(map)
    last_unstaged_state,
    refresh_thread,          \* TRUE: refers to the worker thread, FALSE: None
    exit_prompted,
    sig_pending,             \* SIGUSR1 delivered to the process, not yet handled
    wpc,                     \* position of auto_refresh_worker
    current_staged_files,    \* locals of check_for_changes
    current_unstaged_files,
    polled,                  \* history: a check_for_changes call of the worker has returned
    mpc,                     \* position of the main thread
    staged_changes,          \* locals of loop: the status last rendered
    unstaged_changes,
    action,                  \* the menu choice being dispatched
    guard_held,              \* an AutoRefreshSuspender is entered
    was_active,              \* its field
    guard2_held,             \* a second AutoRefreshSuspender is entered
    was_active2,             \* its field
    outer,                   \* history: the guard entered first of those held (0: none)
    lifo,                    \* history: the guards held were released in LIFO order
    stop_ret,                \* the call site stop_auto_refresh returns to
    stop_calls,              \* history: the calls of stop_auto_refresh so far
    status_msg,              \* the git status message on the console, or "none"
    worker_read,             \* history: the age of the status the worker holds
    session_read,            \* history: the age of the status the loop holds
    refresh_read,            \* history: "cleared" from a clear of the refresh flag
                             \* to the next status read, "read" from then on
    spawned,                 \* history: the worker threads started (line 233)
    operation_count,         \* MCPOperationState (mcp_server.py 47-51)
    operation_in_progress,   \* threading.Event
    current_operation,       \* an operation name or "none"
    cwd,                     \* the working directory of the process: a repository
    hpc,                     \* position of each remote request's handler
    hop,                     \* its tool, while its body runs
    peak,                    \* history: the highest operation_count so far
    wait_timeout,            \* the timeout argument of that call
    waitpc,                  \* position of a caller of wait_for_operations_to_complete
    was_zero                 \* history: operation_count was 0 during that call

vars == <<AUTO_REFRESH, repo, auto_refresh_active, shutdown_requested,
          menu_needs_refresh, last_staged_state, last_unstaged_state,
          refresh_thread, exit_prompted, sig_pending, wpc,
          current_staged_files, current_unstaged_files, polled, mpc,
          staged_changes,
          unstaged_changes, action, guard_held, was_active, guard2_held,
          was_active2, outer, lifo, stop_ret,
          stop_calls, status_msg, refresh_read, worker_read,
          session_read, spawned, operation_count, operation_in_progress,
          current_operation, cwd, hpc, hop, peak, waitpc, was_zero,
          wait_timeout>>

shared == <<auto_refresh_active, shutdown_requested, refresh_thread>>
baseline == <<last_staged_state, last_unstaged_state>>
wlocals == <<current_staged_files, current_unstaged_files, polled>>
looplocals == <<staged_changes, unstaged_changes, action>>
mlocals == <<looplocals, exit_prompted>>
guard == <<guard_held, was_active>>
mainvars == <<mpc, mlocals, guard, stop_ret, stop_calls>>
coordinator == <<operation_count, operation_in_progress, current_operation>>
remote == <<hpc, hop, peak>>
waiter == <<waitpc, was_zero, wait_timeout>>
mcpvars == <<coordinator, remote, waiter>>
reads == <<worker_read, session_read>>
nested == <<guard2_held, was_active2, outer, lifo>>

InitAt(pos) ==
    /\ AUTO_REFRESH \in BOOLEAN
    /\ repo \in RepoStates
    /\ auto_refresh_active = FALSE
    /\ shutdown_requested = FALSE
    /\ menu_needs_refresh = FALSE
    /\ last_staged_state = None
    /\ last_unstaged_state = None
    /\ refresh_thread = FALSE
    /\ exit_prompted = 0
    /\ sig_pending = FALSE
    /\ wpc = "not_started"
    /\ current_staged_files = EmptyFiles
    /\ current_unstaged_files = EmptyFiles
    /\ polled = FALSE
    /\ mpc = pos
    /\ staged_changes = EmptyFiles
    /\ unstaged_changes = EmptyFiles
    /\ action = "none"
    /\ guard_held = FALSE
    /\ was_active = FALSE
    /\ guard2_held = FALSE
    /\ was_active2 = FALSE
    /\ outer = 0
    /\ lifo = TRUE
    /\ stop_ret = "none"
    /\ stop_calls = 0
    /\ status_msg = "none"
    /\ refresh_read = "none"
    /\ worker_read = "fresh"
    /\ session_read = "fresh"
    /\ spawned = 0
    /\ operation_count = 0
    /\ operation_in_progress = FALSE
    /\ current_operation = "none"
    /\ cwd = "session"
    /\ hpc = [h \in Requests |-> "idle"]
    /\ hop = [h \in Requests |-> "none"]
    /\ peak = 0
    /\ waitpc = "idle"
    /\ wait_timeout = "None"
    /\ was_zero = FALSE

\* main() begins with the call of line 347.
Init == InitAt("start")

\* The process is running: the daemon worker dies with it.
ProcessAlive == mpc \notin {"exited", "crashed"}


(***************************************************************************)
(* auto_refresh_worker (main.py 162-223) and check_for_changes (121-160).  *)
(***************************************************************************)

\* A worker whose loop has no exit condition.
WorkerRunsForever == TRUE

\* The guard the worker evaluates at lines 172, 184 and 197.
WorkerMayRun == auto_refresh_active /\ ~shutdown_requested

\* Line 189, left operand: the "double check" before check_for_changes.
DoubleCheck == auto_refresh_active

\* A worker that sends the signal without the check of line 197.
TripleCheckSkipped == TRUE

\* A worker that never sends the signal.
TripleCheckNever == FALSE

\* Line 197: the "triple check" before os.kill.
TripleCheck == auto_refresh_active /\ ~shutdown_requested

\* A comparison that looks at the staged map only.
ChangedStagedOnly(cs, cu) == Some(cs) # last_staged_state

\* Lines 140-141: the comparison with the recorded snapshot.
Changed(cs, cu) ==
    Some(cs) # last_staged_state \/ Some(cu) # last_unstaged_state

\* line 172: while auto_refresh_active and not shutdown_requested.is_set()
W_While ==
    /\ ProcessAlive
    /\ wpc = "while_check"
    /\ wpc' = IF WorkerMayRun THEN "sleep" ELSE "exited"
    /\ UNCHANGED <<AUTO_REFRESH, cwd, nested, reads, refresh_read,
                   status_msg, spawned, mcpvars, repo, shared,
                   menu_needs_refresh, baseline, sig_pending, wlocals,
                   mainvars>>

\* line 178: shutdown_requested.wait(timeout=AUTO_REFRESH_INTERVAL); the wait
\* ends at once when the event is set and by timeout otherwise.
W_Sleep ==
    /\ ProcessAlive
    /\ wpc = "sleep"
    /\ wpc' = IF shutdown_requested THEN "exited" ELSE "active_check"
    /\ UNCHANGED <<AUTO_REFRESH, cwd, nested, reads, refresh_read,
                   status_msg, spawned, mcpvars, repo, shared,
                   menu_needs_refresh, baseline, sig_pending, wlocals,
                   mainvars>>

\* line 184 (else: break, line 217)
W_ActiveCheck ==
    /\ ProcessAlive
    /\ wpc = "active_check"
    /\ wpc' = IF WorkerMayRun THEN "double_check" ELSE "exited"
    /\ UNCHANGED <<AUTO_REFRESH, cwd, nested, reads, refresh_read,
                   status_msg, spawned, mcpvars, repo, shared,
                   menu_needs_refresh, baseline, sig_pending, wlocals,
                   mainvars>>

\* line 189: if auto_refresh_active and check_for_changes()
W_DoubleCheck ==
    /\ ProcessAlive
    /\ wpc = "double_check"
    /\ wpc' = IF DoubleCheck THEN "get_status" ELSE "while_check"
    /\ UNCHANGED <<AUTO_REFRESH, cwd, nested, reads, refresh_read,
                   status_msg, spawned, mcpvars, repo, shared,
                   menu_needs_refresh, baseline, sig_pending, wlocals,
                   mainvars>>

\* line 125, get_status().  An exception other than CalledProcessError
\* (which get_git_diff catches) leaves check_for_changes through line 158:
\* it returns False.
W_GetStatus(os, ou) ==
    /\ ProcessAlive
    /\ wpc = "get_status"
    /\ IF "raised" \in {os, ou}
       THEN /\ wpc' = "while_check"
            /\ polled' = TRUE
            /\ UNCHANGED <<current_staged_files, current_unstaged_files>>
       ELSE /\ wpc' = "compare"
            /\ current_staged_files' = get_status(repo, os, ou)[1]
            /\ current_unstaged_files' = get_status(repo, os, ou)[2]
            /\ UNCHANGED polled
    /\ worker_read' = "fresh"
    /\ UNCHANGED session_read
    /\ UNCHANGED <<AUTO_REFRESH, cwd, nested, refresh_read, status_msg,
                   spawned, mcpvars, repo, shared, menu_needs_refresh,
                   baseline, sig_pending, mainvars>>

\* lines 131-157, under state_lock: the first call records the baseline and
\* returns False; later calls compare, and record the snapshot if it differs.
W_Compare ==
    /\ ProcessAlive
    /\ wpc = "compare"
    /\ IF last_staged_state = None \/ last_unstaged_state = None
       THEN /\ last_staged_state' = Some(current_staged_files)
            /\ last_unstaged_state' = Some(current_unstaged_files)
            /\ wpc' = "while_check"
       ELSE IF Changed(current_staged_files, current_unstaged_files)
       THEN /\ last_staged_state' = Some(current_staged_files)
            /\ last_unstaged_state' = Some(current_unstaged_files)
            /\ wpc' = "set_flag"
       ELSE /\ UNCHANGED baseline
            /\ wpc' = "while_check"
    /\ current_staged_files' = EmptyFiles
    /\ current_unstaged_files' = EmptyFiles
    /\ polled' = TRUE
    /\ worker_read' = "fresh"
    /\ session_read' = IF /\ mpc = "update_baseline"
                          /\ worker_read = "fresh"
                          /\ baseline' # baseline
                       THEN "stale" ELSE session_read
    /\ UNCHANGED <<AUTO_REFRESH, cwd, nested, refresh_read, status_msg,
                   spawned, mcpvars, repo, shared, menu_needs_refresh,
                   sig_pending, mainvars>>

\* line 193: menu_needs_refresh.set()
W_SetFlag ==
    /\ ProcessAlive
    /\ wpc = "set_flag"
    /\ menu_needs_refresh' = TRUE
    /\ wpc' = "triple_check"
    /\ UNCHANGED <<AUTO_REFRESH, cwd, nested, reads, refresh_read,
                   status_msg, spawned, mcpvars, repo, shared, baseline,
                   sig_pending, wlocals, mainvars>>

\* line 197
W_TripleCheck ==
    /\ ProcessAlive
    /\ wpc = "triple_check"
    /\ wpc' = IF TripleCheck THEN "kill" ELSE "while_check"
    /\ UNCHANGED <<AUTO_REFRESH, cwd, nested, reads, refresh_read,
                   status_msg, spawned, mcpvars, repo, shared,
                   menu_needs_refresh, baseline, sig_pending, wlocals,
                   mainvars>>

KillOutcomes == {"ok", "ProcessLookupError", "OSError"}

\* A worker without the handlers of lines 201 and 208: a failed os.kill ends
\* the thread.
W_KillPropagates(o) ==
    /\ ProcessAlive
    /\ wpc = "kill"
    /\ sig_pending' = (sig_pending \/ o = "ok")
    /\ wpc' = IF o = "ok" THEN "while_check" ELSE "exited"
    /\ UNCHANGED <<AUTO_REFRESH, cwd, nested, reads, refresh_read,
                   status_msg, spawned, mcpvars, repo, shared,
                   menu_needs_refresh, baseline, wlocals, mainvars>>

\* line 198: os.kill(os.getpid(), SIGUSR1).  ProcessLookupError is caught at
\* line 201, any other error at line 208 (break if shutdown was requested).
W_Kill(o) ==
    /\ ProcessAlive
    /\ wpc = "kill"
    /\ sig_pending' = (sig_pending \/ o = "ok")
    /\ wpc' = IF o = "OSError" /\ shutdown_requested
              THEN "exited" ELSE "while_check"
    /\ UNCHANGED <<AUTO_REFRESH, cwd, nested, reads, refresh_read,
                   status_msg, spawned, mcpvars, repo, shared,
                   menu_needs_refresh, baseline, wlocals, mainvars>>

Worker(diffs, kills) ==
    \/ W_While
    \/ W_Sleep
    \/ W_ActiveCheck
    \/ W_DoubleCheck
    \/ \E os \in diffs, ou \in diffs : W_GetStatus(os, ou)
    \/ W_Compare
    \/ W_SetFlag
    \/ W_TripleCheck
    \/ \E o \in kills : W_Kill(o)


(***************************************************************************)
(* The main thread: positions and exception routing of loop() and main().  *)
(***************************************************************************)

\* Positions inside the inner try of loop (lines 351-387).
InnerTry == {"check_flag", "clear_flag", "status", "update_baseline", "menu_branch", "pre_prompt", "prompt",
             "fallback", "refresh_none", "prompt_plain"}

\* Positions inside a "with AutoRefreshSuspender()" block (418, 437, 444).
Guarded == {"gen_prompt", "gen_commit", "stage_prompt", "stage_git",
            "unstage_prompt", "unstage_git"}

\* Positions inside stop_auto_refresh (240-260).
StopPcs == {"stop_check", "stop_set", "stop_join"}

\* Call sites of stop_auto_refresh in main(), outside loop (518, 524, 530).
MainLevel == {"exit0", "exit1", "clean"}

\* Where an Exception (RefreshMenuException, MenuNavigationException, ...)
\* raised at position p is caught: line 482 inside loop's outer try, line 521
\* when it leaves loop(), nowhere when it leaves main().
ExceptionTarget(p, ret) ==
    CASE p = "start" -> <<"stop_check", "exit1">>
      [] p \in StopPcs /\ ret = "break" -> <<"stop_check", "return">>
      [] p \in StopPcs /\ ret = "return" -> <<"stop_check", "exit1">>
      [] p \in StopPcs /\ ret \in MainLevel -> <<"crashed", ret>>
      [] OTHER -> <<"stop_check", "return">>

\* A main() whose KeyboardInterrupt handler ends the process without the
\* call of line 518.
KeyboardInterruptUnstopped(p, ret) ==
    CASE p \in {"check_flag", "clear_flag", "status", "update_baseline",
                "menu_branch", "pre_prompt", "prompt", "fallback",
                "refresh_none", "prompt_plain"} -> <<"ctrl_c", ret>>
      [] p \in {"gen_prompt", "gen_commit"} -> <<"check_flag", ret>>
      [] OTHER -> <<"exited", "exit0">>

\* A prompt wrapper that answers a KeyboardInterrupt of the menu prompt like
\* a refresh request (return None).
KeyboardInterruptConflated(p, ret) ==
    CASE p = "prompt" -> <<"refresh_none", ret>>
      [] p \in {"check_flag", "clear_flag", "status", "update_baseline",
                "menu_branch", "pre_prompt", "fallback", "refresh_none",
                "prompt_plain"} -> <<"ctrl_c", ret>>
      [] p \in {"gen_prompt", "gen_commit"} -> <<"check_flag", ret>>
      [] p \in {"stop_check", "stop_set", "stop_join"}
           /\ ret \in {"exit0", "exit1", "clean"} -> <<"crashed", ret>>
      [] OTHER -> <<"stop_check", "exit0">>

\* Where a KeyboardInterrupt raised at position p is caught: line 389 inside
\* the inner try, line 424 inside handle_generate_commit's guard, line 515
\* otherwise ("except Exception" does not catch it).
KeyboardInterruptTarget(p, ret) ==
    CASE p \in InnerTry -> <<"ctrl_c", ret>>
      [] p \in {"gen_prompt", "gen_commit"} -> <<"check_flag", ret>>
      [] p \in StopPcs /\ ret \in MainLevel -> <<"crashed", ret>>
      [] OTHER -> <<"stop_check", "exit0">>

\* Variants of the guard and of the handler without their conditions; the
\* properties below distinguish the code from them.
SuspenderEnterKeeps == auto_refresh_active

SuspenderExitAlwaysOn == TRUE

HandlerRaisesAlways == TRUE

\* A guard whose release never turns auto-refresh back on.
SuspenderExitKeeps == auto_refresh_active

\* AutoRefreshSuspender.__enter__ (267-274): the new auto_refresh_active.
SuspenderEnter == IF auto_refresh_active THEN FALSE ELSE auto_refresh_active

\* AutoRefreshSuspender.__exit__ (276-281): the new auto_refresh_active.
SuspenderExit == IF was_active THEN TRUE ELSE auto_refresh_active

\* Control passes to target <<pc, ret>>: at position "stop_check" a call of
\* stop_auto_refresh begins.
Invoke(target) ==
    stop_calls' = IF target[1] = "stop_check" THEN stop_calls + 1
                  ELSE stop_calls

\* Positions after the loop has been left: its locals are not read again.
OutOfLoop == StopPcs \cup {"exited", "crashed"}

\* Leaving the current position for target <<pc, ret>>; a guard that is held
\* is released on the way (the with statement runs __exit__ on every exit).
LeaveTo(target) ==
    /\ mpc' = target[1]
    /\ stop_ret' = target[2]
    /\ Invoke(target)
    /\ IF target[1] \in OutOfLoop
       THEN /\ staged_changes' = EmptyFiles
            /\ unstaged_changes' = EmptyFiles
            /\ action' = "none"
       ELSE UNCHANGED looplocals
    /\ IF guard_held
       THEN /\ auto_refresh_active' = SuspenderExit
            /\ guard_held' = FALSE
            /\ was_active' = FALSE
       ELSE UNCHANGED <<auto_refresh_active, guard>>

\* _refresh_signal_handler (107-115): raises only if auto_refresh_active.
HandlerRaises == auto_refresh_active

\* SIGUSR1 is handled in the main thread, wherever it is.  The exception is
\* caught at line 295 when the thread is in the menu prompt.
M_Handler ==
    /\ ProcessAlive
    /\ sig_pending
    /\ sig_pending' = FALSE
    /\ IF HandlerRaises
       THEN IF mpc = "prompt"
            THEN LeaveTo(<<"refresh_none", stop_ret>>)
            ELSE LeaveTo(ExceptionTarget(mpc, stop_ret))
       ELSE UNCHANGED <<mpc, stop_ret, stop_calls, auto_refresh_active,
                        guard, looplocals>>
    /\ UNCHANGED <<AUTO_REFRESH, cwd, nested, reads, refresh_read,
                   status_msg, spawned, mcpvars, repo, shutdown_requested,
                   refresh_thread, menu_needs_refresh, baseline, wpc,
                   wlocals, exit_prompted>>

\* Ctrl-C outside a questionary prompt: KeyboardInterrupt at the position.
M_CtrlC ==
    /\ ProcessAlive
    /\ LeaveTo(KeyboardInterruptTarget(mpc, stop_ret))
    /\ status_msg' = IF mpc \in {"gen_prompt", "gen_commit"} THEN "none"
                     ELSE status_msg
    /\ UNCHANGED <<AUTO_REFRESH, cwd, nested, reads, refresh_read, spawned,
                   mcpvars, repo, shutdown_requested, refresh_thread,
                   menu_needs_refresh, baseline, sig_pending, wpc, wlocals,
                   exit_prompted>>

\* line 347, start_auto_refresh (225-238)
M_Start ==
    /\ mpc = "start"
    /\ mpc' = "check_flag"
    /\ IF AUTO_REFRESH /\ ~auto_refresh_active
       THEN /\ auto_refresh_active' = TRUE
            /\ refresh_thread' = TRUE
            /\ wpc' = "while_check"
            /\ spawned' = spawned + 1
       ELSE UNCHANGED <<auto_refresh_active, refresh_thread, wpc, spawned>>
    /\ UNCHANGED <<AUTO_REFRESH, cwd, nested, reads, refresh_read,
                   status_msg, mcpvars, repo, shutdown_requested,
                   menu_needs_refresh, baseline, sig_pending, wlocals,
                   mlocals, guard, stop_ret, stop_calls>>

\* A loop without the test of line 353.
M_CheckFlagBlind ==
    /\ mpc = "check_flag"
    /\ mpc' = "status"
    /\ UNCHANGED <<AUTO_REFRESH, cwd, nested, reads, refresh_read,
                   status_msg, spawned, mcpvars, repo, shared,
                   menu_needs_refresh, baseline, sig_pending, wpc, wlocals,
                   mlocals, guard, stop_ret, stop_calls>>

\* line 353
M_CheckFlag ==
    /\ mpc = "check_flag"
    /\ mpc' = IF menu_needs_refresh THEN "clear_flag" ELSE "status"
    /\ UNCHANGED <<AUTO_REFRESH, cwd, nested, reads, refresh_read,
                   status_msg, spawned, mcpvars, repo, shared,
                   menu_needs_refresh, baseline, sig_pending, wpc, wlocals,
                   mlocals, guard, stop_ret, stop_calls>>

\* A loop that clears the flag and goes on to the menu with the status it
\* already has.
M_ClearFlagNoReread ==
    /\ mpc = "clear_flag"
    /\ menu_needs_refresh' = FALSE
    /\ status_msg' = "none"
    /\ refresh_read' = "cleared"
    /\ mpc' = "menu_branch"
    /\ UNCHANGED <<AUTO_REFRESH, cwd, nested, reads, spawned, mcpvars, repo,
                   shared, baseline, sig_pending, wpc, wlocals, mlocals,
                   guard, stop_ret, stop_calls>>

\* lines 354-357
M_ClearFlag ==
    /\ mpc = "clear_flag"
    /\ menu_needs_refresh' = FALSE
    /\ status_msg' = "none"
    /\ refresh_read' = "cleared"
    /\ mpc' = "check_flag"
    /\ UNCHANGED <<AUTO_REFRESH, cwd, nested, reads, spawned, mcpvars, repo,
                   shared, baseline, sig_pending, wpc, wlocals, mlocals,
                   guard, stop_ret, stop_calls>>

\* line 360, get_and_display_status(): the status is read and rendered.
\* An exception other than CalledProcessError propagates.
M_Status(os, ou) ==
    /\ mpc = "status"
    /\ IF "raised" \in {os, ou}
       THEN LeaveTo(ExceptionTarget(mpc, stop_ret))
       ELSE /\ mpc' = "update_baseline"
            /\ staged_changes' = get_status(repo, os, ou)[1]
            /\ unstaged_changes' = get_status(repo, os, ou)[2]
            /\ UNCHANGED <<auto_refresh_active, guard, stop_ret, stop_calls,
                           action>>
    /\ refresh_read' = IF refresh_read = "cleared" /\ "raised" \notin {os, ou}
                       THEN "read" ELSE refresh_read
    /\ session_read' = "fresh"
    /\ worker_read' = IF wpc = "compare" /\ "raised" \notin {os, ou}
                      THEN "before_read" ELSE worker_read
    /\ UNCHANGED <<AUTO_REFRESH, cwd, nested, status_msg, spawned, mcpvars,
                   repo, shutdown_requested, refresh_thread,
                   menu_needs_refresh, baseline, sig_pending, wpc, wlocals,
                   exit_prompted>>

\* lines 363-365, under state_lock
M_UpdateBaseline ==
    /\ mpc = "update_baseline"
    /\ last_staged_state' = Some(staged_changes)
    /\ last_unstaged_state' = Some(unstaged_changes)
    /\ mpc' = "menu_branch"
    /\ session_read' = "fresh"
    /\ worker_read' = IF wpc = "compare" /\ worker_read = "before_read"
                      THEN "before_render" ELSE worker_read
    /\ UNCHANGED <<AUTO_REFRESH, cwd, nested, refresh_read, status_msg,
                   spawned, mcpvars, repo, shared, menu_needs_refresh,
                   sig_pending, wpc, wlocals, mlocals, guard, stop_ret,
                   stop_calls>>

\* line 373
M_MenuBranch ==
    /\ mpc = "menu_branch"
    /\ mpc' = IF AUTO_REFRESH /\ auto_refresh_active
              THEN "pre_prompt" ELSE "prompt_plain"
    /\ UNCHANGED <<AUTO_REFRESH, cwd, nested, reads, refresh_read,
                   status_msg, spawned, mcpvars, repo, shared,
                   menu_needs_refresh, baseline, sig_pending, wpc, wlocals,
                   mlocals, guard, stop_ret, stop_calls>>

\* main_menu_prompt_with_refresh, line 289
M_PrePrompt ==
    /\ mpc = "pre_prompt"
    /\ mpc' = IF menu_needs_refresh THEN "refresh_none" ELSE "prompt"
    /\ UNCHANGED <<AUTO_REFRESH, cwd, nested, reads, refresh_read,
                   status_msg, spawned, mcpvars, repo, shared,
                   menu_needs_refresh, baseline, sig_pending, wpc, wlocals,
                   mlocals, guard, stop_ret, stop_calls>>

\* lines 375-380: action is None
M_RefreshNone ==
    /\ mpc = "refresh_none"
    /\ menu_needs_refresh' = FALSE
    /\ status_msg' = "none"
    /\ refresh_read' = "cleared"
    /\ mpc' = "check_flag"
    /\ UNCHANGED <<AUTO_REFRESH, cwd, nested, reads, spawned, mcpvars, repo,
                   shared, baseline, sig_pending, wpc, wlocals, mlocals,
                   guard, stop_ret, stop_calls>>


(***************************************************************************)
(* The menu (cli_flow.get_menu_options) and the dispatch of its choices.   *)
(***************************************************************************)
BaseChoices == <<"View Commit History", "Summarize Commits", "Push Repo",
                 "Ignore Files", "Select Model", "Exit">>

get_menu_options(staged, unstaged) ==
    (IF DOMAIN staged # {}
     THEN <<"Generate Commit", "Unstage Files">> ELSE <<>>)
    \o (IF DOMAIN unstaged # {} THEN <<"Stage Files">> ELSE <<>>)
    \o (IF DOMAIN staged # {} \/ DOMAIN unstaged # {}
        THEN <<"Review Changes">> ELSE <<>>)
    \o BaseChoices

Choices == get_menu_options(staged_changes, unstaged_changes)

PromptPcs == {"prompt", "prompt_plain", "fallback"}

\* The user picks a menu entry (questionary at 294/382, input() at 325).
M_Select(a) ==
    /\ mpc \in PromptPcs
    /\ \E i \in DOMAIN Choices : Choices[i] = a
    /\ mpc' = "dispatch"
    /\ action' = a
    /\ UNCHANGED <<AUTO_REFRESH, cwd, nested, reads, refresh_read,
                   status_msg, spawned, mcpvars, repo, shared,
                   menu_needs_refresh, baseline, sig_pending, wpc, wlocals,
                   staged_changes, unstaged_changes, exit_prompted, guard,
                   stop_ret, stop_calls>>

\* OSError/EOFError from the prompt: the simplified menu (298) under
\* main_menu_prompt_with_refresh, "break" (383-387) under main_menu_prompt;
\* the loop then returns and main() reaches its else clause (527-530).
M_TerminalError ==
    /\ mpc \in {"prompt", "prompt_plain"}
    /\ IF mpc = "prompt"
       THEN LeaveTo(<<"fallback", stop_ret>>)
       ELSE LeaveTo(<<"stop_check", "clean">>)
    /\ UNCHANGED <<AUTO_REFRESH, cwd, nested, reads, refresh_read,
                   status_msg, spawned, mcpvars, repo, shutdown_requested,
                   refresh_thread, menu_needs_refresh, baseline, sig_pending,
                   wpc, wlocals, exit_prompted>>

\* lines 310-317 of the simplified menu: None when the refresh event is set,
\* the first choice after 100 attempts without a terminal.
M_Fallback ==
    /\ mpc = "fallback"
    /\ IF menu_needs_refresh
       THEN mpc' = "refresh_none" /\ UNCHANGED action
       ELSE mpc' = "dispatch" /\ action' = Choices[1]
    /\ UNCHANGED <<AUTO_REFRESH, cwd, nested, reads, refresh_read,
                   status_msg, spawned, mcpvars, repo, shared,
                   menu_needs_refresh, baseline, sig_pending, wpc, wlocals,
                   staged_changes, unstaged_changes, exit_prompted, guard,
                   stop_ret, stop_calls>>

\* lines 389-409: the handler of KeyboardInterrupt of the inner try
M_CtrlCHandler ==
    /\ mpc = "ctrl_c"
    /\ exit_prompted' = exit_prompted + 1
    /\ IF exit_prompted' = 1
       THEN LeaveTo(<<"check_flag", stop_ret>>)
       ELSE LeaveTo(<<"stop_check", "break">>)
    /\ status_msg' = "none"
    /\ UNCHANGED <<AUTO_REFRESH, cwd, nested, reads, refresh_read, spawned,
                   mcpvars, repo, shutdown_requested, refresh_thread,
                   menu_needs_refresh, baseline, sig_pending, wpc, wlocals>>

GuardedPrompt(a) ==
    CASE a = "Generate Commit" -> "gen_prompt"
      [] a = "Stage Files" -> "stage_prompt"
      [] a = "Unstage Files" -> "unstage_prompt"

\* lines 413-481: reset the exit counter and dispatch the choice; the three
\* mutating actions enter an AutoRefreshSuspender first.
M_Dispatch ==
    /\ mpc = "dispatch"
    /\ exit_prompted' = 0
    /\ status_msg' = IF action \in {"Stage Files", "Unstage Files"}
                     THEN status_msg ELSE "none"
    /\ refresh_read' = "none"
    /\ IF action \in {"Generate Commit", "Stage Files", "Unstage Files"}
       THEN /\ was_active' = auto_refresh_active
            /\ auto_refresh_active' = SuspenderEnter
            /\ guard_held' = TRUE
            /\ mpc' = GuardedPrompt(action)
            /\ action' = "none"
            /\ UNCHANGED <<stop_ret, stop_calls, staged_changes,
                           unstaged_changes>>
       ELSE IF action = "Exit"
       THEN LeaveTo(<<"stop_check", "break">>)
       ELSE /\ mpc' = "plain_action"
            /\ action' = "none"
            /\ UNCHANGED <<auto_refresh_active, guard, stop_ret, stop_calls,
                           staged_changes, unstaged_changes>>
    /\ UNCHANGED <<AUTO_REFRESH, cwd, nested, reads, spawned, mcpvars, repo,
                   shutdown_requested, refresh_thread, menu_needs_refresh,
                   baseline, sig_pending, wpc, wlocals>>

\* Ctrl-C inside a questionary prompt of a submenu: MenuNavigationException
\* (cli_flow 243, 407, 444, 596, 1070, ...).
M_SubmenuCancel ==
    /\ mpc \in {"gen_prompt", "stage_prompt", "unstage_prompt", "plain_action"}
    /\ LeaveTo(ExceptionTarget(mpc, stop_ret))
    /\ UNCHANGED <<AUTO_REFRESH, cwd, nested, reads, refresh_read,
                   status_msg, spawned, mcpvars, repo, shutdown_requested,
                   refresh_thread, menu_needs_refresh, baseline, sig_pending,
                   wpc, wlocals, exit_prompted>>

\* Review Changes, View Commit History, Summarize Commits, Push Repo, Ignore
\* Files, Select Model (431-473): no guard; back to the top of the loop.
M_PlainDone ==
    /\ mpc = "plain_action"
    /\ mpc' = "check_flag"
    /\ UNCHANGED <<AUTO_REFRESH, cwd, nested, reads, refresh_read,
                   status_msg, spawned, mcpvars, repo, shared,
                   menu_needs_refresh, baseline, sig_pending, wpc, wlocals,
                   mlocals, guard, stop_ret, stop_calls>>

\* handle_files (cli_flow 211-255): the checkbox; with a selection the git
\* command follows, without one the action ends.
M_FilesPrompt(selected) ==
    /\ mpc \in {"stage_prompt", "unstage_prompt"}
    /\ IF selected
       THEN /\ mpc' = (IF mpc = "stage_prompt" THEN "stage_git" ELSE "unstage_git")
            /\ UNCHANGED <<auto_refresh_active, guard, stop_ret, stop_calls,
                           looplocals>>
       ELSE LeaveTo(<<"check_flag", stop_ret>>)
    /\ status_msg' = IF selected THEN status_msg ELSE "none"
    /\ UNCHANGED <<AUTO_REFRESH, cwd, nested, reads, refresh_read, spawned,
                   mcpvars, repo, shutdown_requested, refresh_thread,
                   menu_needs_refresh, baseline, sig_pending, wpc, wlocals,
                   exit_prompted>>

GitOutcomes == {"ok", "error"}

\* git_utils.run_git_command (16-37): the string it returns; it never raises.
run_git_command(o) == IF o = "ok" THEN "Success" ELSE "Error"

\* A commit action that prints nothing when git commit fails.
GenerateCommitSilent(o) == IF o = "ok" THEN "Success" ELSE "none"

\* handle_generate_commit (cli_flow 457-462) and main.py 422-423: a successful
\* status is returned and printed by the loop, a failing one is printed in
\* red by the handler.
GenerateCommitMessage(o) == run_git_command(o)

\* cli_flow 247 / 249: git add or git reset of the selected files, then the
\* end of the with block (main.py 438-440, 445-447).
M_FilesGit(fs, o) ==
    /\ mpc \in {"stage_git", "unstage_git"}
    /\ fs # {}
    /\ fs \subseteq (IF mpc = "stage_git" THEN DOMAIN unstaged_changes
                                          ELSE DOMAIN staged_changes)
    /\ repo' = IF o # "ok" THEN repo
               ELSE IF mpc = "stage_git" THEN stage_files(repo, fs)
               ELSE unstage_files(repo, fs)
    /\ status_msg' = run_git_command(o)
    /\ LeaveTo(<<"check_flag", stop_ret>>)
    /\ UNCHANGED <<AUTO_REFRESH, cwd, nested, reads, refresh_read, spawned,
                   mcpvars, shutdown_requested, refresh_thread,
                   menu_needs_refresh, baseline, sig_pending, wpc, wlocals,
                   exit_prompted>>

\* handle_generate_commit (cli_flow 374-536): the user commits the generated
\* message, or cancels / no message was generated.
M_GenPrompt(commit) ==
    /\ mpc = "gen_prompt"
    /\ IF commit
       THEN /\ mpc' = "gen_commit"
            /\ UNCHANGED <<auto_refresh_active, guard, stop_ret, stop_calls,
                           looplocals>>
       ELSE LeaveTo(<<"check_flag", stop_ret>>)
    /\ UNCHANGED <<AUTO_REFRESH, cwd, nested, reads, refresh_read,
                   status_msg, spawned, mcpvars, repo, shutdown_requested,
                   refresh_thread, menu_needs_refresh, baseline, sig_pending,
                   wpc, wlocals, exit_prompted>>

\* cli_flow 458 / 513: git commit -m, then the end of the with block (429).
M_GenCommit(o) ==
    /\ mpc = "gen_commit"
    /\ repo' = IF o = "ok" THEN git_commit(repo) ELSE repo
    /\ status_msg' = GenerateCommitMessage(o)
    /\ LeaveTo(<<"check_flag", stop_ret>>)
    /\ UNCHANGED <<AUTO_REFRESH, cwd, nested, reads, refresh_read, spawned,
                   mcpvars, shutdown_requested, refresh_thread,
                   menu_needs_refresh, baseline, sig_pending, wpc, wlocals,
                   exit_prompted>>

(***************************************************************************)
(* stop_auto_refresh (240-260).                                            *)
(***************************************************************************)

\* Where stop_auto_refresh returns to: after "break" (407, 481) or "return"
\* (489) loop() has returned and main() calls it again at line 530; after
\* the calls of main() (518, 524, 530) the process ends.
StopReturn(ret) ==
    IF ret \in {"break", "return"} THEN <<"stop_check", "clean">>
    ELSE IF ret = "caller" THEN <<"caller", "caller">>
    ELSE <<"exited", ret>>

\* lines 243-247
M_StopCheck ==
    /\ mpc = "stop_check"
    /\ IF auto_refresh_active
       THEN /\ auto_refresh_active' = FALSE
            /\ mpc' = "stop_set"
            /\ UNCHANGED <<stop_ret, stop_calls>>
       ELSE /\ mpc' = StopReturn(stop_ret)[1]
            /\ stop_ret' = StopReturn(stop_ret)[2]
            /\ Invoke(StopReturn(stop_ret))
            /\ UNCHANGED auto_refresh_active
    /\ UNCHANGED <<AUTO_REFRESH, cwd, nested, reads, refresh_read,
                   status_msg, spawned, mcpvars, repo, shutdown_requested,
                   refresh_thread, menu_needs_refresh, baseline, sig_pending,
                   wpc, wlocals, mlocals, guard>>

\* lines 248-249
M_StopSet ==
    /\ mpc = "stop_set"
    /\ shutdown_requested' = TRUE
    /\ IF refresh_thread
       THEN mpc' = "stop_join" /\ UNCHANGED <<stop_ret, stop_calls>>
       ELSE /\ mpc' = StopReturn(stop_ret)[1]
            /\ stop_ret' = StopReturn(stop_ret)[2]
            /\ Invoke(StopReturn(stop_ret))
    /\ UNCHANGED <<AUTO_REFRESH, cwd, nested, reads, refresh_read,
                   status_msg, spawned, mcpvars, repo, auto_refresh_active,
                   refresh_thread, menu_needs_refresh, baseline, sig_pending,
                   wpc, wlocals, mlocals, guard>>

\* A join() without a timeout: it returns only when the worker has exited.
M_StopJoinUnbounded ==
    /\ mpc = "stop_join"
    /\ wpc = "exited"
    /\ refresh_thread' = FALSE
    /\ mpc' = StopReturn(stop_ret)[1]
    /\ stop_ret' = StopReturn(stop_ret)[2]
    /\ Invoke(StopReturn(stop_ret))
    /\ UNCHANGED <<AUTO_REFRESH, cwd, nested, reads, refresh_read,
                   status_msg, spawned, mcpvars, repo, auto_refresh_active,
                   shutdown_requested, menu_needs_refresh, baseline,
                   sig_pending, wpc, wlocals, mlocals, guard>>

\* lines 251-258: join(timeout=2) returns when the worker has exited or when
\* the two seconds have passed
M_StopJoin ==
    /\ mpc = "stop_join"
    /\ refresh_thread' = FALSE
    /\ mpc' = StopReturn(stop_ret)[1]
    /\ stop_ret' = StopReturn(stop_ret)[2]
    /\ Invoke(StopReturn(stop_ret))
    /\ UNCHANGED <<AUTO_REFRESH, cwd, nested, reads, refresh_read,
                   status_msg, spawned, mcpvars, repo, auto_refresh_active,
                   shutdown_requested, menu_needs_refresh, baseline,
                   sig_pending, wpc, wlocals, mlocals, guard>>

(***************************************************************************)
(* The environment: an edit of the working tree made outside the session   *)
(* (an editor, another git client, a handler of the companion server).     *)
(***************************************************************************)
ExternalChange(r) ==
    /\ ProcessAlive
    /\ r # repo
    /\ repo' = r
    /\ UNCHANGED <<AUTO_REFRESH, cwd, nested, reads, refresh_read,
                   status_msg, spawned, mcpvars, shared, menu_needs_refresh,
                   baseline, sig_pending, wpc, wlocals, mainvars>>

Main(diffs, gits) ==
    \/ M_Handler
    \/ M_CtrlC
    \/ M_Start
    \/ M_CheckFlag
    \/ M_ClearFlag
    \/ \E os \in diffs, ou \in diffs : M_Status(os, ou)
    \/ M_UpdateBaseline
    \/ M_MenuBranch
    \/ M_PrePrompt
    \/ M_RefreshNone
    \/ \E i \in DOMAIN Choices : M_Select(Choices[i])
    \/ M_TerminalError
    \/ M_Fallback
    \/ M_CtrlCHandler
    \/ M_Dispatch
    \/ M_SubmenuCancel
    \/ M_PlainDone
    \/ \E b \in BOOLEAN : M_FilesPrompt(b)
    \/ \E fs \in SUBSET Files, o \in gits : M_FilesGit(fs, o)
    \/ \E b \in BOOLEAN : M_GenPrompt(b)
    \/ \E o \in gits : M_GenCommit(o)
    \/ M_StopCheck
    \/ M_StopSet
    \/ M_StopJoin

Next ==
    \/ Worker(DiffOutcomes, KillOutcomes)
    \/ Main(DiffOutcomes, GitOutcomes)
    \/ \E r \in RepoStates : ExternalChange(r)

Spec == Init /\ [][Next]_vars


(***************************************************************************)
(* Environments that the scenarios of the specification fix.               *)
(***************************************************************************)

\* Nothing fails under the watcher: every git diff of the worker and of the
\* session succeeds, and so does every os.kill.
NextNoFailure ==
    \/ Worker({"ok"}, {"ok"})
    \/ Main({"ok"}, GitOutcomes)
    \/ \E r \in RepoStates : ExternalChange(r)

SpecNoFailure == Init /\ [][NextNoFailure]_vars

(***************************************************************************)
(* Fair scheduling, where nothing fails: both threads keep running and a    *)
(* pending signal is handled.  The user and the outside editor are not     *)
(* obliged to do anything.                                                 *)
(***************************************************************************)
MainStep ==
    \/ M_Start \/ M_CheckFlag \/ M_ClearFlag \/ M_Status("ok", "ok")
    \/ M_UpdateBaseline \/ M_MenuBranch \/ M_PrePrompt \/ M_RefreshNone
    \/ M_CtrlCHandler \/ M_Dispatch \/ M_StopCheck \/ M_StopSet \/ M_StopJoin

FairSpec ==
    /\ SpecNoFailure
    /\ WF_vars(Worker({"ok"}, {"ok"}))
    /\ WF_vars(M_Handler)
    /\ WF_vars(MainStep)


\* Every repository query of the worker fails.
NextQueryFails ==
    \/ Worker({"CalledProcessError", "raised"}, KillOutcomes)
    \/ Main(DiffOutcomes, GitOutcomes)
    \/ \E r \in RepoStates : ExternalChange(r)

SpecQueryFails == Init /\ [][NextQueryFails]_vars

\* The working tree changes only while a suspend guard is held (by the
\* guarded action itself or from outside), and no query fails.
NextSuspendedChanges ==
    \/ Worker({"ok"}, KillOutcomes)
    \/ Main({"ok"}, GitOutcomes)
    \/ \E r \in RepoStates : ExternalChange(r) /\ guard_held /\ was_active

SpecSuspendedChanges == Init /\ [][NextSuspendedChanges]_vars

\* Fair scheduling where no repository query fails but os.kill may, and
\* where the working tree is left alone while a refresh is pending.
NextKillFails ==
    \/ Worker({"ok"}, KillOutcomes)
    \/ Main({"ok"}, GitOutcomes)
    \/ \E r \in RepoStates : ExternalChange(r) /\ ~menu_needs_refresh

FairSpecKillFails ==
    /\ Init /\ [][NextKillFails]_vars
    /\ WF_vars(Worker({"ok"}, KillOutcomes))
    /\ WF_vars(M_Handler)
    /\ WF_vars(MainStep)

(***************************************************************************)
(* The controller by itself: start_auto_refresh, stop_auto_refresh and the *)
(* suspend guard called in any order by one caller (position "caller"),    *)
(* beside the worker.  The session of loop() issues only some of these     *)
(* sequences.  The signal handler is no part of the interface: a signal    *)
(* sent by the worker stays pending.  wpc follows the worker thread that   *)
(* was started first among those alive; spawned counts every start.        *)
(***************************************************************************)
InitCalls == InitAt("caller")

\* start_auto_refresh (225-238)
Call_Start ==
    /\ mpc = "caller"
    /\ spawned < MaxCalls
    /\ IF AUTO_REFRESH /\ ~auto_refresh_active
       THEN /\ auto_refresh_active' = TRUE
            /\ refresh_thread' = TRUE
            /\ wpc' = IF wpc \in {"not_started", "exited"}
                      THEN "while_check" ELSE wpc
            /\ spawned' = spawned + 1
       ELSE UNCHANGED <<auto_refresh_active, refresh_thread, wpc, spawned>>
    /\ UNCHANGED <<AUTO_REFRESH, cwd, nested, reads, refresh_read,
                   status_msg, mcpvars, repo, shutdown_requested,
                   menu_needs_refresh, baseline, sig_pending, wlocals,
                   mainvars>>

\* a call of stop_auto_refresh (240-260) begins
Call_Stop ==
    /\ mpc = "caller"
    /\ stop_calls < MaxCalls
    /\ mpc' = "stop_check"
    /\ stop_ret' = "caller"
    /\ Invoke(<<"stop_check", "caller">>)
    /\ UNCHANGED <<AUTO_REFRESH, cwd, nested, reads, refresh_read,
                   status_msg, spawned, mcpvars, repo, shared,
                   menu_needs_refresh, baseline, sig_pending, wpc, wlocals,
                   mlocals, guard>>

\* AutoRefreshSuspender.__enter__ (267-274)
Call_Suspend ==
    /\ mpc = "caller"
    /\ ~guard_held
    /\ was_active' = auto_refresh_active
    /\ auto_refresh_active' = SuspenderEnter
    /\ guard_held' = TRUE
    /\ outer' = IF guard2_held THEN outer ELSE 1
    /\ UNCHANGED <<guard2_held, was_active2, lifo>>
    /\ UNCHANGED <<AUTO_REFRESH, cwd, reads, refresh_read, status_msg,
                   spawned, mcpvars, repo, shutdown_requested,
                   refresh_thread, menu_needs_refresh, baseline, sig_pending,
                   wpc, wlocals, mpc, mlocals, stop_ret, stop_calls>>

\* AutoRefreshSuspender.__exit__ (276-281)
Call_Resume ==
    /\ mpc = "caller"
    /\ guard_held
    /\ auto_refresh_active' = SuspenderExit
    /\ guard_held' = FALSE
    /\ was_active' = FALSE
    /\ outer' = IF guard2_held THEN 2 ELSE 0
    /\ lifo' = IF guard2_held THEN lifo /\ outer # 1 ELSE TRUE
    /\ UNCHANGED <<guard2_held, was_active2>>
    /\ UNCHANGED <<AUTO_REFRESH, cwd, reads, refresh_read, status_msg,
                   spawned, mcpvars, repo, shutdown_requested,
                   refresh_thread, menu_needs_refresh, baseline, sig_pending,
                   wpc, wlocals, mpc, mlocals, stop_ret, stop_calls>>

\* AutoRefreshSuspender.__enter__ (267-274) of a second instance.
Call_Suspend2 ==
    /\ mpc = "caller"
    /\ ~guard2_held
    /\ was_active2' = auto_refresh_active
    /\ auto_refresh_active' = SuspenderEnter
    /\ guard2_held' = TRUE
    /\ outer' = IF guard_held THEN outer ELSE 2
    /\ UNCHANGED lifo
    /\ UNCHANGED <<AUTO_REFRESH, cwd, reads, refresh_read, status_msg,
                   spawned, mcpvars, repo, shutdown_requested,
                   refresh_thread, menu_needs_refresh, baseline, sig_pending,
                   wpc, wlocals, mainvars>>

\* AutoRefreshSuspender.__exit__ (276-281) of the second instance.
Call_Resume2 ==
    /\ mpc = "caller"
    /\ guard2_held
    /\ auto_refresh_active' = IF was_active2 THEN TRUE ELSE auto_refresh_active
    /\ guard2_held' = FALSE
    /\ was_active2' = FALSE
    /\ outer' = IF guard_held THEN 1 ELSE 0
    /\ lifo' = IF guard_held THEN lifo /\ outer # 2 ELSE TRUE
    /\ UNCHANGED <<AUTO_REFRESH, cwd, reads, refresh_read, status_msg,
                   spawned, mcpvars, repo, shutdown_requested,
                   refresh_thread, menu_needs_refresh, baseline, sig_pending,
                   wpc, wlocals, mainvars>>

NextCalls ==
    \/ Worker({"ok"}, {"ok"})
    \/ Call_Start
    \/ Call_Stop
    \/ Call_Suspend
    \/ Call_Resume
    \/ M_StopCheck
    \/ M_StopSet
    \/ M_StopJoin
    \/ \E r \in RepoStates : ExternalChange(r)

SpecCalls == InitCalls /\ [][NextCalls]_vars

\* Two call sites that suspend, in any order of release; start() is called
\* before any guard is entered, as in loop() (line 347).
NextGuards ==
    \/ Worker({"ok"}, {"ok"})
    \/ Call_Start /\ ~guard_held /\ ~guard2_held
    \/ Call_Suspend
    \/ Call_Resume
    \/ Call_Suspend2
    \/ Call_Resume2
    \/ \E r \in RepoStates : ExternalChange(r)

SpecGuards == InitCalls /\ [][NextGuards]_vars

(***************************************************************************)
(* The companion server (mcp_server.py): MCPOperationState, the scoped     *)
(* MCPOperation of every mutating tool, and a caller of                    *)
(* wait_for_operations_to_complete.  Each request runs in its own thread;  *)
(* a thread at "begin_set" or "end_clear" holds the lock of the state.     *)
(***************************************************************************)
\* The repositories a request can name (repo_name): the one the session
\* works in and another registered one.
Repositories == {"session", "other"}

Operations == {"stage_file", "unstage_file", "generate_commit_and_commit",
               "add_files"}

HandlerOutcomes == {"ok", "error", "raised"}

\* self.lock is free.
LockFree == \A h \in Requests : hpc[h] \notin {"begin_set", "end_clear"}

\* is_operation_in_progress (70-72): reads the event, without the lock.
is_operation_in_progress == operation_in_progress

\* The count has changed: the history of the waiting caller.
SeenZero(count) ==
    was_zero' = (was_zero \/ (waitpc \in {"loop", "sleep"} /\ count = 0))

\* The tool is called; MCPOperation.__enter__ (112-114) calls
\* start_operation, which takes the lock and increments (55-56).
H_StartInc(h, op) ==
    /\ ProcessAlive
    /\ hpc[h] \in {"idle", "done"}
    /\ LockFree
    /\ operation_count' = operation_count + 1
    /\ peak' = IF operation_count' > peak THEN operation_count' ELSE peak
    /\ hpc' = [hpc EXCEPT ![h] = "begin_set"]
    /\ hop' = [hop EXCEPT ![h] = op]
    /\ SeenZero(operation_count')
    /\ UNCHANGED <<AUTO_REFRESH, cwd, nested, reads, refresh_read,
                   status_msg, spawned, repo, shared, menu_needs_refresh,
                   baseline, sig_pending, wpc, wlocals, mainvars,
                   operation_in_progress, current_operation, waitpc,
                   wait_timeout>>

\* start_operation, lines 57-59: the name, the event, the lock is released.
H_StartSet(h) ==
    /\ ProcessAlive
    /\ hpc[h] = "begin_set"
    /\ current_operation' = hop[h]
    /\ operation_in_progress' = TRUE
    /\ hpc' = [hpc EXCEPT ![h] = "body"]
    /\ UNCHANGED <<AUTO_REFRESH, cwd, nested, reads, refresh_read,
                   status_msg, spawned, repo, shared, menu_needs_refresh,
                   baseline, sig_pending, wpc, wlocals, mainvars,
                   operation_count, hop, peak, waiter>>

\* What the tool does to the working tree when its git command succeeds.
\* add_files (288-347) adds untracked files only, which no diff reports.
ToolEffect(op, r, fs) ==
    CASE op = "stage_file" -> stage_files(r, fs)
      [] op = "unstage_file" -> unstage_files(r, fs)
      [] op = "generate_commit_and_commit" -> git_commit(r)
      [] OTHER -> r

\* ensure_repo_context (204-218): os.chdir to the repository named by the
\* request; an unknown name raises before the chdir.
ensure_repo_context(repo_name, o) == IF o = "raised" THEN cwd ELSE repo_name

\* A tool body that leaves its scope without __exit__ when it raises.
H_BodyLeaks(h, fs, o) ==
    /\ ProcessAlive
    /\ hpc[h] = "body"
    /\ \E repo_name \in Repositories :
          /\ cwd' = ensure_repo_context(repo_name, o)
          /\ repo' = IF o = "ok" /\ repo_name = "session"
                     THEN ToolEffect(hop[h], repo, fs) ELSE repo
    /\ hpc' = [hpc EXCEPT ![h] = IF o = "raised" THEN "done" ELSE "end"]
    /\ hop' = [hop EXCEPT ![h] = "none"]
    /\ UNCHANGED <<AUTO_REFRESH, nested, reads, refresh_read, status_msg,
                   spawned, shared, menu_needs_refresh, baseline,
                   sig_pending, wpc, wlocals, mainvars, coordinator, peak,
                   waiter>>

\* The body of the with block of a tool (228-234, 246-252, 266-286,
\* 301-347): the git command succeeds, or returns an error, or an exception
\* is raised and caught by "except Exception"; the scope is then left.
H_Body(h, fs, o) ==
    /\ ProcessAlive
    /\ hpc[h] = "body"
    /\ \E repo_name \in Repositories :
          /\ cwd' = ensure_repo_context(repo_name, o)
          /\ repo' = IF o = "ok" /\ repo_name = "session"
                     THEN ToolEffect(hop[h], repo, fs) ELSE repo
    /\ hpc' = [hpc EXCEPT ![h] = "end"]
    /\ hop' = [hop EXCEPT ![h] = "none"]
    /\ UNCHANGED <<AUTO_REFRESH, nested, reads, refresh_read, status_msg,
                   spawned, shared, menu_needs_refresh, baseline,
                   sig_pending, wpc, wlocals, mainvars, coordinator, peak,
                   waiter>>

\* An end_operation that decrements without the max(0, ...).
H_EndDecUnclamped(h) ==
    /\ ProcessAlive
    /\ hpc[h] = "end"
    /\ LockFree
    /\ operation_count' = operation_count - 1
    /\ hpc' = [hpc EXCEPT ![h] = "end_clear"]
    /\ SeenZero(operation_count')
    /\ UNCHANGED <<AUTO_REFRESH, cwd, nested, reads, refresh_read,
                   status_msg, spawned, repo, shared, menu_needs_refresh,
                   baseline, sig_pending, wpc, wlocals, mainvars,
                   operation_in_progress, current_operation, hop, peak,
                   waitpc, wait_timeout>>

\* MCPOperation.__exit__ (116-117) calls end_operation, which takes the
\* lock and decrements, not below zero (63-64).
H_EndDec(h) ==
    /\ ProcessAlive
    /\ hpc[h] = "end"
    /\ LockFree
    /\ operation_count' = IF operation_count > 0 THEN operation_count - 1
                           ELSE 0
    /\ hpc' = [hpc EXCEPT ![h] = "end_clear"]
    /\ SeenZero(operation_count')
    /\ UNCHANGED <<AUTO_REFRESH, cwd, nested, reads, refresh_read,
                   status_msg, spawned, repo, shared, menu_needs_refresh,
                   baseline, sig_pending, wpc, wlocals, mainvars,
                   operation_in_progress, current_operation, hop, peak,
                   waitpc, wait_timeout>>

\* An end_operation that clears the event whatever the count.
H_EndClearAlways(h) ==
    /\ ProcessAlive
    /\ hpc[h] = "end_clear"
    /\ operation_in_progress' = FALSE
    /\ current_operation' = "none"
    /\ hpc' = [hpc EXCEPT ![h] = "done"]
    /\ UNCHANGED <<AUTO_REFRESH, cwd, nested, reads, refresh_read,
                   status_msg, spawned, repo, shared, menu_needs_refresh,
                   baseline, sig_pending, wpc, wlocals, mainvars,
                   operation_count, hop, peak, waiter>>

\* end_operation, lines 65-68: the event and the name are cleared when the
\* count is zero; the lock is released and the tool returns.
H_EndClear(h) ==
    /\ ProcessAlive
    /\ hpc[h] = "end_clear"
    /\ IF operation_count = 0
       THEN /\ operation_in_progress' = FALSE
            /\ current_operation' = "none"
       ELSE UNCHANGED <<operation_in_progress, current_operation>>
    /\ hpc' = [hpc EXCEPT ![h] = "done"]
    /\ UNCHANGED <<AUTO_REFRESH, cwd, nested, reads, refresh_read,
                   status_msg, spawned, repo, shared, menu_needs_refresh,
                   baseline, sig_pending, wpc, wlocals, mainvars,
                   operation_count, hop, peak, waiter>>

Handler(h) ==
    \/ \E op \in Operations : H_StartInc(h, op)
    \/ H_StartSet(h)
    \/ \E fs \in SUBSET Files, o \in HandlerOutcomes : H_Body(h, fs, o)
    \/ H_EndDec(h)
    \/ H_EndClear(h)

\* The timeout arguments: None, zero, a positive number of seconds.
Timeouts == {"None", "0", "positive"}

\* A test "timeout is not None" in the place of "if timeout".
TruthyNotNone(timeout) == timeout # "None"

\* Truth value of the argument in "if timeout and ..." (line 85).
Truthy(timeout) == timeout \notin {"None", "0"}

\* wait_for_operations_to_complete(timeout) is called; line 81 reads the
\* event.
Wait_Call(timeout) ==
    /\ ProcessAlive
    /\ waitpc \in {"idle", "True", "False"}
    /\ wait_timeout' = timeout
    /\ was_zero' = (operation_count = 0)
    /\ waitpc' = IF operation_in_progress THEN "loop" ELSE "True"
    /\ UNCHANGED <<AUTO_REFRESH, cwd, nested, reads, refresh_read,
                   status_msg, spawned, repo, shared, menu_needs_refresh,
                   baseline, sig_pending, wpc, wlocals, mainvars,
                   coordinator, remote>>

\* lines 84-86: the loop test and the test of the elapsed time.
Wait_Loop(elapsed) ==
    /\ ProcessAlive
    /\ waitpc = "loop"
    /\ waitpc' = IF ~operation_in_progress THEN "True"
                 ELSE IF Truthy(wait_timeout) /\ elapsed THEN "False" ELSE "sleep"
    /\ UNCHANGED <<AUTO_REFRESH, cwd, nested, reads, refresh_read,
                   status_msg, spawned, repo, shared, menu_needs_refresh,
                   baseline, sig_pending, wpc, wlocals, mainvars,
                   coordinator, remote, was_zero, wait_timeout>>

\* line 87: time.sleep(0.1)
Wait_Sleep ==
    /\ ProcessAlive
    /\ waitpc = "sleep"
    /\ waitpc' = "loop"
    /\ UNCHANGED <<AUTO_REFRESH, cwd, nested, reads, refresh_read,
                   status_msg, spawned, repo, shared, menu_needs_refresh,
                   baseline, sig_pending, wpc, wlocals, mainvars,
                   coordinator, remote, was_zero, wait_timeout>>

\* end_operation is called by a thread that has not called start_operation.
H_EndUnmatched(h) ==
    /\ ProcessAlive
    /\ hpc[h] \in {"idle", "done"}
    /\ hpc' = [hpc EXCEPT ![h] = "end"]
    /\ UNCHANGED <<AUTO_REFRESH, cwd, nested, reads, refresh_read,
                   status_msg, spawned, repo, shared, menu_needs_refresh,
                   baseline, sig_pending, wpc, wlocals, mainvars,
                   coordinator, hop, peak, waiter>>

\* The server by itself: the requests, beside a session that has not
\* started (its watcher is disabled).
InitMCP == Init /\ ~AUTO_REFRESH

NextMCP == \E h \in Requests : Handler(h)

SpecMCP == InitMCP /\ [][NextMCP]_vars

\* Any sequence of start_operation and end_operation calls from the
\* threads, matched or not.
NextEnds ==
    \/ \E h \in Requests : Handler(h)
    \/ \E h \in Requests : H_EndUnmatched(h)

SpecEnds == InitMCP /\ [][NextEnds]_vars

\* One request after the other, and a caller that waits for quiescence.
NextWait ==
    \/ Handler(1)
    \/ \E timeout \in Timeouts : Wait_Call(timeout)
    \/ \E elapsed \in BOOLEAN : Wait_Loop(elapsed)
    \/ Wait_Sleep

SpecWait == Init /\ [][NextWait]_vars

\* The steps of the main thread that can be taken with AUTO_REFRESH off:
\* no worker is started, no signal arrives, the menu is the plain prompt.
MainPlain(diffs, gits) ==
    \/ M_CtrlC
    \/ M_Start
    \/ M_CheckFlag
    \/ \E os \in diffs, ou \in diffs : M_Status(os, ou)
    \/ M_UpdateBaseline
    \/ M_MenuBranch
    \/ \E i \in DOMAIN Choices : M_Select(Choices[i])
    \/ M_TerminalError
    \/ M_CtrlCHandler
    \/ M_Dispatch
    \/ M_SubmenuCancel
    \/ M_PlainDone
    \/ \E b \in BOOLEAN : M_FilesPrompt(b)
    \/ \E fs \in SUBSET Files, o \in gits : M_FilesGit(fs, o)
    \/ \E b \in BOOLEAN : M_GenPrompt(b)
    \/ \E o \in gits : M_GenCommit(o)
    \/ M_StopCheck

\* The session without auto-refresh, where nothing fails, beside one remote
\* request; the working tree is edited by the session and the server only.
NextRemote ==
    \/ MainPlain({"ok"}, {"ok"})
    \/ Handler(1)

SpecRemote == InitMCP /\ [][NextRemote]_vars

(***************************************************************************)
(* Properties.                                                             *)
(***************************************************************************)
Running == auto_refresh_active /\ ~shutdown_requested /\ ~guard_held

\* The handler has raised RefreshMenuException: control left the position.
HandlerRaised == M_Handler /\ <<mpc, stop_ret>>' # <<mpc, stop_ret>>

\* The worker executes os.kill (line 198).
KillCalled == wpc = "kill" /\ wpc' # "kill"

\* C1: whenever the signal handler raises RefreshMenuException in the main
\* thread, the session takes the refresh path (redraw, continue the loop);
\* it never leaves the loop or stops auto-refresh because of it.
C1_RaiseIsRefresh == [][HandlerRaised => mpc' = "refresh_none"]_vars

\* C2: suspending auto-refresh never makes the worker exit: the worker
\* thread does not end while a suspend guard is held.
C2_WorkerSurvivesSuspension ==
    [][(wpc # "exited" /\ wpc' = "exited") => ~guard_held]_vars

\* C3: while auto-refresh is Running and the session is blocked in the menu
\* prompt, a change of the working tree is eventually followed by the abort
\* of the prompt: the session does not stay in the prompt for ever with a
\* status that differs from the working tree.
C3_Stale ==
    /\ mpc = "prompt"
    /\ Running
    /\ <<staged_changes, unstaged_changes>> # get_status(repo, "ok", "ok")

C3_ChangeAbortsPrompt == []<>(~C3_Stale)

\* C4 (as claimed): os.kill is called only in a state where auto-refresh is
\* Running.
C4_KillOnlyWhenRunning ==
    [][KillCalled => (auto_refresh_active /\ ~shutdown_requested)]_vars

\* C4 (amended): the worker reaches os.kill only through the check of line
\* 197, taken in a state where auto_refresh_active holds and shutdown is not
\* requested; a suspend or stop may still come between check and call.
C4_KillOnlyAfterCheck ==
    [][(wpc # "kill" /\ wpc' = "kill") =>
         (wpc = "triple_check" /\ auto_refresh_active /\ ~shutdown_requested)]_vars

C4_Witness == wpc = "kill" /\ guard_held /\ ~auto_refresh_active

\* C5: the worker never sets menu_needs_refresh in a state where a suspend
\* guard is held.
C5_NoFlagWhileSuspended == [][W_SetFlag => ~guard_held]_vars

\* C6: the handler raises RefreshMenuException only when auto-refresh is
\* Running: never while a suspend guard is held, never once stop has
\* cleared the flag or requested the shutdown.
C6_RaiseOnlyWhenRunning ==
    [][HandlerRaised =>
         (Running /\ mpc \notin {"stop_set", "stop_join"})]_vars

C6_Witness == sig_pending /\ guard_held /\ was_active /\ wpc # "exited"

\* C7: a poll whose repository query fails reports no change and leaves a
\* recorded snapshot as it is (checked where every query of the worker
\* fails).
C7_FailedPollIsSilent ==
    [][(wpc = "compare" /\ wpc' # "compare") =>
         /\ wpc' = "while_check"
         /\ (last_staged_state # None /\ last_unstaged_state # None
               => UNCHANGED baseline)]_vars

\* C8: the session's git add, git reset and git commit, and the whole of
\* the action around them, run with a suspend guard held and
\* auto_refresh_active false.
C8_MutationsAreGuarded ==
    mpc \in Guarded => (guard_held /\ ~auto_refresh_active)

C8_Witness == mpc = "stage_git" /\ was_active /\ wpc \notin {"exited", "not_started"}

\* C9: the release of a suspend guard, on every path, leaves
\* auto_refresh_active with the value it had when the guard was entered.
C9_ReleaseRestores ==
    [][(guard_held /\ ~guard_held') => auto_refresh_active' = was_active]_vars

C9_Witness == guard_held /\ ~was_active /\ mpc = "gen_commit"

\* C10: when the working tree changes only during suspensions, no interrupt
\* is ever delivered.
C10_NoInterrupt == ~sig_pending

\* C11: a poll of the worker leads to an interrupt exactly when its snapshot
\* differs from the recorded one (the snapshot of the preceding poll, when
\* only the worker records): the first poll records and sends nothing; a
\* later poll goes on to os.kill if and only if its maps differ and
\* auto-refresh is still Running at line 197; os.kill is called once and the
\* worker returns to the top of its loop (or ends, line 212).
C11_InterruptIffChanged ==
    [][/\ (wpc = "compare" /\ wpc' # "compare") =>
            (wpc' = "set_flag" <=>
                /\ last_staged_state # None
                /\ last_unstaged_state # None
                /\ \/ last_staged_state # {current_staged_files}
                   \/ last_unstaged_state # {current_unstaged_files})
       /\ (wpc = "set_flag" /\ wpc' # "set_flag") => wpc' = "triple_check"
       /\ (wpc = "triple_check" /\ wpc' # "triple_check") =>
            (wpc' = "kill" <=> Running)
       /\ (wpc # "kill" /\ wpc' = "kill") => wpc = "triple_check"
       /\ KillCalled => wpc' \in {"while_check", "exited"}]_vars

\* The worker is about to call os.kill for a poll that differed from the
\* snapshot it recorded itself, before the session has rendered anything.
C11_Witness ==
    /\ wpc = "kill"
    /\ Running
    /\ mpc = "status"
    /\ exit_prompted = 0
    /\ last_staged_state = {get_status(repo, "ok", "ok")[1]}
    /\ last_unstaged_state = {get_status(repo, "ok", "ok")[2]}

C12_FirstPollSilent ==
    [][(wpc = "compare" /\ wpc' # "compare" /\ ~polled) =>
         wpc' # "set_flag"]_vars

\* stop_auto_refresh has run to its end (line 258) after requesting the
\* shutdown: the controller is Stopped.
StopReturned == shutdown_requested /\ ~refresh_thread

\* C15: once stop() has returned from the Running state the worker makes no
\* further progress: it reads the repository no more, sets PendingRefresh
\* no more and sends no interrupt.
C15_StoppedIsTerminal ==
    [][StopReturned =>
         /\ ~(wpc = "get_status" /\ wpc' # "get_status")
         /\ ~W_SetFlag
         /\ ~KillCalled]_vars

\* The steps of stop_auto_refresh.
StopStep == M_StopCheck \/ M_StopSet \/ M_StopJoin

\* C16: a stop() that follows a stop() that has returned (the call of line
\* 530 after the one inside loop) changes neither the active flag nor the
\* shutdown request nor the worker reference and returns at once; and every
\* call of stop() can always take its next step, whatever the worker does.
C16_StopIsIdempotent ==
    /\ [][(stop_ret = "clean" /\ stop_calls >= 2 /\ StopStep) =>
            (UNCHANGED shared /\ mpc' = "exited")]_vars
    /\ [](mpc \in StopPcs => ENABLED StopStep)

\* The second stop() begins while the worker has not exited.
C16_Witness ==
    /\ mpc = "stop_check" /\ stop_ret = "clean" /\ stop_calls = 2
    /\ shutdown_requested
    /\ wpc \notin {"not_started", "exited"}

\* C17: a worker that observes the shutdown request at a check of its loop
\* (lines 172, 178, 184) exits there without a new detection, and once the
\* shutdown is requested the worker eventually exits (or the process ends).
C17_WorkerExitsAfterStop ==
    /\ [][(/\ shutdown_requested
           /\ wpc \in {"while_check", "sleep", "active_check"}
           /\ wpc' # wpc) => wpc' = "exited"]_vars
    /\ (shutdown_requested ~> (wpc = "exited" \/ ~ProcessAlive))

\* The shutdown is requested while the worker is in its sleep, and while it
\* is in a detection.
C17_Witness == shutdown_requested /\ wpc = "sleep" /\ mpc = "stop_join"

\* The session has ended: main() has returned or called sys.exit, or an
\* exception has left main().
SessionEnded == mpc \in {"exited", "crashed"}

\* C18 (as claimed): on every path by which the session ends
\* stop_auto_refresh has been invoked exactly once.
C18_StopExactlyOnce == SessionEnded => stop_calls = 1

\* C18 (amended): on every path by which the session ends stop_auto_refresh
\* has been invoked at least once and at most three times.
C18_StopAtLeastOnce == SessionEnded => stop_calls \in 1..3

\* The session has ended through the Exit item or a double Ctrl-C: the call
\* inside loop and the call of line 530.
C18_Witness == mpc = "exited" /\ stop_ret = "clean" /\ stop_calls = 2

\* C19: when main() finishes the controller is Stopped: auto_refresh_active
\* is false and, if a worker was started, the shutdown is requested.
C19_StoppedAtExit ==
    mpc = "exited" =>
        /\ ~auto_refresh_active
        /\ (wpc # "not_started" => shutdown_requested)

\* The controller is Suspended: a guard entered in the Running state is held.
Suspended == guard_held /\ was_active /\ ~shutdown_requested

\* C14: a stop() called while auto-refresh is Suspended leaves the
\* controller Stopped when it returns: the shutdown is requested.
C14_StopWhileSuspended ==
    [][(/\ guard_held /\ was_active
        /\ stop_ret = "caller"
        /\ StopStep
        /\ mpc' = "caller") => shutdown_requested']_vars

\* C20: start() called while a worker is alive and the controller is Running
\* or Suspended starts no thread and changes neither the active flag nor
\* the shutdown request nor the worker reference.
C20_StartIsNoop ==
    [][(/\ Call_Start
        /\ wpc \notin {"not_started", "exited"}
        /\ Running \/ Suspended) => UNCHANGED <<shared, spawned>>]_vars

\* The menu prompt of the loop: questionary under the wrapper (294) or plain
\* (382).
AtMenuPrompt == mpc \in {"prompt", "prompt_plain"}

\* C21: at the main menu prompt a RefreshMenuException leads to the redraw
\* (action None) and leaves the exit counter alone; a KeyboardInterrupt
\* leads to the Ctrl-C handler, which counts it, leaves PendingRefresh alone
\* and goes to the top of the loop or to the shutdown, never to the redraw.
C21_NeverConflated ==
    [][/\ (AtMenuPrompt /\ HandlerRaised) =>
            /\ mpc' = "refresh_none"
            /\ UNCHANGED <<exit_prompted, stop_calls>>
       /\ (AtMenuPrompt /\ M_CtrlC) =>
            /\ mpc' = "ctrl_c"
            /\ UNCHANGED <<menu_needs_refresh, exit_prompted>>
       /\ M_RefreshNone => UNCHANGED <<exit_prompted, stop_calls>>
       /\ M_CtrlCHandler =>
            /\ exit_prompted' = exit_prompted + 1
            /\ UNCHANGED menu_needs_refresh
            /\ mpc' \in {"check_flag", "stop_check"}]_vars

\* The user has cancelled once, and a refresh interruption has then aborted
\* the prompt: the redraw is about to run with the exit counter at 1.
C21_Witness ==
    /\ mpc = "refresh_none" /\ exit_prompted = 1
    /\ menu_needs_refresh /\ ~sig_pending /\ Running

\* C22: at the top of a cycle a set PendingRefresh leads to its clearing and
\* back to the top, never on to the status and the prompt; the wrapper does
\* not prompt either when it finds PendingRefresh set (289).
C22_PendingRefreshSkipsPrompt ==
    [][/\ (M_CheckFlag /\ menu_needs_refresh) => mpc' = "clear_flag"
       /\ M_ClearFlag => (~menu_needs_refresh' /\ mpc' = "check_flag")
       /\ (mpc = "clear_flag" /\ mpc' # mpc) =>
            mpc' \in {"check_flag", "ctrl_c", "stop_check"}
       /\ (M_PrePrompt /\ menu_needs_refresh) => mpc' = "refresh_none"
       /\ (mpc' \in PromptPcs /\ mpc \notin PromptPcs) =>
            mpc \in {"pre_prompt", "menu_branch"}]_vars

\* The check of line 353 has found PendingRefresh set.
C22_Witness == mpc = "clear_flag" /\ menu_needs_refresh /\ Running

\* os.kill raises.
KillFailed == \E o \in KillOutcomes \ {"ok"} : W_Kill(o)

\* C28 (as claimed): when os.kill raises, the main thread is not touched and
\* the worker goes on to the top of its loop.
C28_KillFailureContinues ==
    [][KillFailed => (wpc' = "while_check" /\ UNCHANGED mainvars)]_vars

\* C28 (amended): when os.kill raises, the main thread is not touched and
\* the worker goes on to the top of its loop, unless the error is not a
\* ProcessLookupError and the shutdown has been requested: then it exits.
C28_KillFailureContinuesUnlessShutdown ==
    [][KillFailed =>
         /\ UNCHANGED <<mainvars, sig_pending>>
         /\ wpc' = "while_check" \/ (wpc' = "exited" /\ shutdown_requested)]_vars

\* The delivery has failed: PendingRefresh is set, no signal is pending and
\* the session is still in the prompt while the worker is back at the top of
\* its loop.
DeliveryFailed ==
    /\ mpc = "prompt" /\ Running
    /\ menu_needs_refresh /\ ~sig_pending
    /\ wpc = "while_check"

C28_Witness == DeliveryFailed

\* C30: an OSError or EOFError raised by the menu prompt leads to the
\* simplified menu, with or without auto-refresh.
C30_TerminalErrorFallsBack ==
    [][M_TerminalError => mpc' = "fallback"]_vars

\* C29: after a failed delivery, while the session is still blocked in the
\* prompt with a rendering that differs from the working tree, the worker
\* eventually sends the interrupt again (or the session leaves the prompt).
C29_RetryAfterFailure ==
    (DeliveryFailed /\ C3_Stale) ~> (wpc = "kill" \/ mpc # "prompt")

\* C23: whatever a reader without the lock sees, the in-progress signal is
\* set exactly when the count is positive.
C23_SignalIffCount == is_operation_in_progress <=> operation_count > 0

\* The operations whose begin has returned and whose end has not.
Outstanding == {h \in Requests : hpc[h] \in {"body", "end", "end_clear"}}

\* C24: the signal is set exactly when some completed begin has no completed
\* end, and whenever no begin or end is under way the count is the number
\* of these operations: after three overlapping begins and two ends the
\* signal is still set.
C24_OperationBalance ==
    /\ is_operation_in_progress <=> Outstanding # {}
    /\ LockFree => operation_count = Cardinality(Outstanding)

\* Three operations have overlapped and two of them have ended.
C24_Witness ==
    /\ peak = 3
    /\ Cardinality({h \in Requests : hpc[h] = "done"}) = 2
    /\ Cardinality(Outstanding) = 1
    /\ LockFree
    /\ is_operation_in_progress

\* C25: a tool touches the working tree only between its begin and its end,
\* with the count positive and the signal set; whatever the outcome of its
\* body the end follows, and once every tool has returned the count is zero.
C25_MutationInsideScope ==
    /\ [][\A h \in Requests :
            (\E fs \in SUBSET Files, o \in HandlerOutcomes : H_Body(h, fs, o)) =>
                /\ operation_count > 0 /\ operation_in_progress
                /\ hpc'[h] = "end"]_vars
    /\ []((\A h \in Requests : hpc[h] \in {"idle", "done"}) =>
            (operation_count = 0 /\ ~operation_in_progress))

\* stage_file has staged a.py and has not yet ended.
C25_Witness ==
    \E h \in Requests :
        /\ hpc[h] = "end" /\ current_operation = "stage_file"
        /\ repo["a.py"].st = "staged"
        /\ operation_count = 1

\* C26: wait_for_operations_to_complete returns True exactly when the count
\* was zero at some instant of the call.
C26_WaitReturnsQuiescence ==
    waitpc \in {"True", "False"} => (waitpc = "True" <=> was_zero)

\* C27: the session enters a local stage, unstage or commit action only
\* while no remote operation is in progress.
C27_LocalActionWaits ==
    [][(M_Dispatch /\ action \in {"Generate Commit", "Stage Files",
                                   "Unstage Files"}) =>
          (operation_count = 0 /\ ~is_operation_in_progress)]_vars

\* A git add, git reset or git commit of a dispatched action has failed.
GitFailed ==
    \/ \E fs \in SUBSET Files : M_FilesGit(fs, "error")
    \/ M_GenCommit("error")

\* C31: when the git command of a dispatched stage, unstage or commit action
\* returns an error, the error is printed as the status message, the loop
\* goes on at its top, stop_auto_refresh is not called, no shutdown is
\* requested and the guard gives auto-refresh back as it found it.
C31_GitFailureShown ==
    [][GitFailed =>
          /\ status_msg' = "Error"
          /\ mpc' = "check_flag"
          /\ UNCHANGED <<stop_calls, shutdown_requested, refresh_thread, repo>>
          /\ ~guard_held'
          /\ auto_refresh_active' = (was_active \/ auto_refresh_active)]_vars

\* The menu is presented with the error of a failed command on the console
\* and auto-refresh running.
C31_Witness ==
    /\ status_msg = "Error"
    /\ mpc = "prompt"
    /\ Running
    /\ stop_calls = 0

\* C34: a Ctrl-C inside a submenu prompt (MenuNavigationException) leads back
\* to the top of the loop: stop_auto_refresh is not called and no shutdown
\* is requested.
C34_SubmenuCancelNavigates ==
    [][M_SubmenuCancel =>
          /\ mpc' = "check_flag"
          /\ UNCHANGED <<stop_calls, shutdown_requested>>]_vars

\* The user cancels a prompt: Ctrl-C in the main menu or in a submenu.
UserCancel ==
    \/ M_CtrlC /\ mpc \in PromptPcs
    \/ M_SubmenuCancel

\* The first cancellation since the last selected action is answered by the
\* loop going on: no stop, no shutdown.
C35_SingleCancelContinues ==
    [][(M_CtrlCHandler /\ exit_prompted = 0) =>
          /\ mpc' = "check_flag"
          /\ UNCHANGED <<stop_calls, shutdown_requested>>]_vars

\* Selecting an action resets the exit counter.
C35_SelectionResets == [][M_Dispatch => exit_prompted' = 0]_vars

\* C35: a single cancellation at the main menu never ends the session, a
\* cancellation ends the session only as the second one with no selected
\* action in between (the exit counter, reset to zero by every selected
\* action, has reached two), and every selected action resets the counter.
C35_DoubleCancelExits ==
    /\ C35_SingleCancelContinues
    /\ C35_SelectionResets
    /\ [][((UserCancel \/ M_CtrlCHandler) /\ stop_calls' > stop_calls) =>
             exit_prompted' >= 2]_vars

\* Positions at which the menu is being presented.
MenuShown == PromptPcs \cup {"menu_branch", "pre_prompt"}

\* C37: after every clear of the refresh flag the session reads the status
\* again before it presents the menu: no menu is presented between a clear
\* and the next read, and that read renders the working tree as it is then
\* (as far as git diff reports it).
C37_NoRefreshLost ==
    /\ [](mpc \in MenuShown => refresh_read # "cleared")
    /\ [][(M_ClearFlag \/ M_RefreshNone) =>
             (mpc' = "check_flag" /\ refresh_read' = "cleared")]_vars
    /\ [][(refresh_read = "cleared" /\ refresh_read' = "read") =>
             /\ mpc = "status" /\ mpc' = "update_baseline"
             /\ \E os, ou \in {"ok", "CalledProcessError"} :
                   <<staged_changes', unstaged_changes'>> = get_status(repo, os, ou)]_vars

\* The worker has seen a.py staged, the session has cleared the flag, read
\* the status again and presents the menu showing a.py staged.
C37_Witness ==
    /\ mpc = "prompt"
    /\ refresh_read = "read"
    /\ polled
    /\ "a.py" \in DOMAIN current_staged_files
    /\ "a.py" \in DOMAIN staged_changes
    /\ staged_changes = get_git_diff(repo, "staged", "ok")

\* C38: the recorded baseline is only replaced by a status read later than
\* the one it holds: the worker does not overwrite the baseline of a render
\* with a status it read before that render's read, and the loop does not
\* overwrite a baseline the worker recorded from a later read than its own.
C38_BaselineOnlyAdvances ==
    [][/\ (W_Compare /\ baseline' # baseline) => worker_read # "before_render"
       /\ (M_UpdateBaseline /\ baseline' # baseline) => session_read # "stale"]_vars

\* Both guards are held: two suspensions overlap.
Nested == guard_held /\ guard2_held

\* was_active of the guard entered first of those held.
OuterWasActive == (outer = 1 /\ was_active) \/ (outer = 2 /\ was_active2)

\* The guard entered second is released while the first is held (LIFO).
InnerRelease ==
    \/ Nested /\ outer = 2 /\ Call_Resume
    \/ Nested /\ outer = 1 /\ Call_Resume2

\* The guard entered first is released while the second is held.
OuterReleaseFirst ==
    \/ Nested /\ outer = 1 /\ Call_Resume
    \/ Nested /\ outer = 2 /\ Call_Resume2

\* The only guard held is released.
LastRelease ==
    \/ ~guard2_held /\ Call_Resume
    \/ ~guard_held /\ Call_Resume2

\* C32: with guards released in LIFO order auto-refresh stays suspended
\* until the outermost guard is released: while the guard entered first in
\* the Running state is held the flag is off, the release of the inner
\* guard leaves it off, and the release of the outermost guard turns it on.
C32_NestedGuards ==
    /\ []((lifo /\ OuterWasActive) => ~auto_refresh_active)
    /\ [][(lifo /\ InnerRelease) =>
             (auto_refresh_active' = auto_refresh_active /\ OuterWasActive' = OuterWasActive)]_vars
    /\ [][(lifo /\ LastRelease /\ OuterWasActive) =>
             (auto_refresh_active' /\ ~guard_held' /\ ~guard2_held')]_vars

\* Inside two nested guards entered in the Running state, the worker alive.
C32_Witness ==
    /\ Nested
    /\ lifo
    /\ OuterWasActive
    /\ ~auto_refresh_active
    /\ wpc \notin {"not_started", "exited"}

\* C36 (as claimed): when two suspensions overlap, the resume of the one
\* entered second re-enables polling while the first caller, who suspended
\* a Running auto-refresh, still holds its guard.
C36_SecondResumeReenables ==
    [][(lifo /\ InnerRelease /\ OuterWasActive) => auto_refresh_active']_vars

\* C36 (amended): the resume of the suspension entered second never
\* re-enables polling; the resume of the one entered first does, and when it
\* comes while the second is still held polling is on although the second
\* caller still holds its guard.
C36_FirstResumeReenables ==
    /\ [][(lifo /\ InnerRelease) => auto_refresh_active' = auto_refresh_active]_vars
    /\ [][(lifo /\ OuterReleaseFirst /\ OuterWasActive) =>
             (auto_refresh_active' /\ (guard_held' \/ guard2_held'))]_vars

\* The worker polls while the caller that suspended second holds its guard.
C36_Witness ==
    /\ ~lifo
    /\ guard_held \/ guard2_held
    /\ auto_refresh_active
    /\ wpc = "compare"

\* C33: operation_count is never negative, whatever the sequence of
\* start_operation and end_operation calls of the threads; an end_operation
\* that finds the count at zero leaves it at zero and goes on to return as
\* any other.
C33_CountNeverNegative ==
    /\ [](operation_count >= 0)
    /\ [][\A h \in Requests : (H_EndDec(h) /\ operation_count = 0) =>
             (operation_count' = 0 /\ hpc'[h] = "end_clear")]_vars
    /\ [][\A h \in Requests : H_EndClear(h) => hpc'[h] = "done"]_vars

\* An end_operation with no start_operation before it has decremented: the
\* count is zero and no operation has ever begun.
C33_Witness ==
    \E h \in Requests :
        /\ hpc[h] = "end_clear"
        /\ operation_count = 0
        /\ peak = 0

\* The interactive session is running: started and not yet stopping.
SessionRunning == mpc \notin {"start", "exited", "crashed"} \cup StopPcs

\* C39: while the session is running, the body of a remote handler leaves
\* the working directory of the process as it is.
C39_HandlerKeepsCwd ==
    [][\A h \in Requests :
         (SessionRunning /\ \E fs \in SUBSET Files, o \in HandlerOutcomes : H_Body(h, fs, o))
            => cwd' = cwd]_vars

\* The caller is inside the loop of wait_for_operations_to_complete.
Waiting == waitpc \in {"loop", "sleep"}

\* The call was made with timeout None or with timeout 0.
NoTimeout == wait_timeout \in {"None", "0"}

\* C40: a wait called with timeout None or 0 never returns False; while
\* the signal is set it stays in its loop, and it leaves the loop only when
\* the signal is clear, the count having been zero; a wait called while no
\* operation is in progress returns True at once, whatever the timeout.
C40_WaitWithoutTimeout ==
    /\ [](NoTimeout => waitpc # "False")
    /\ [][(Waiting /\ NoTimeout /\ waitpc' # waitpc) =>
             IF waitpc = "sleep" \/ operation_in_progress THEN Waiting'
             ELSE waitpc' = "True" /\ was_zero]_vars
    /\ [][\A timeout \in Timeouts :
             (Wait_Call(timeout) /\ ~operation_in_progress) => waitpc' = "True"]_vars

\* A wait with timeout 0 is in its loop, an operation in progress.
C40_Witness ==
    /\ wait_timeout = "0"
    /\ waitpc = "sleep"
    /\ operation_in_progress
    /\ operation_count > 0

====
